---- MODULE Spec2Model ----
(***************************************************************************)
(* Model of the blog repository: the entry point main.js, which hands one  *)
(* configuration record to the blog engine, the post files the engine      *)
(* serves, and the route-definition examples of the post                   *)
(* posts/describing-url-routes-in-frontend-apps.md.                        *)
(*                                                                         *)
(* JavaScript strings are TLA+ strings and template literals are \o.       *)
(* An optional value (a parameter that may be omitted) is a record:        *)
(* Undefined, or Str(s) for the string s.                                  *)
(***************************************************************************)
EXTENDS Integers, Sequences, FiniteSets, TLC

VARIABLES pc, blogArgs, files, extra, served, gaHits,
          appLocale, example, input, output

mainVars  == <<pc, blogArgs, files, extra, served, gaHits>>
routeVars == <<appLocale, example, input, output>>
vars      == <<pc, blogArgs, files, extra, served, gaHits,
               appLocale, example, input, output>>

(***************************************************************************)
(* Bounds.                                                                 *)
(***************************************************************************)
MaxIdLen == 2
MaxSlugLen == 1
MaxLocaleLen == 2
MaxRequests == 2

(***************************************************************************)
(* JavaScript values.                                                      *)
(***************************************************************************)
Undefined == [kind |-> "undefined"]
Str(s) == [kind |-> "string", v |-> s]

\* ToBoolean: undefined and the empty string are falsy.
Truthy(x) == x.kind = "string" /\ x.v # ""

\* ${x} inside a template literal.
Template(x) == IF x.kind = "undefined" THEN "undefined" ELSE x.v

\* A parameter default (p = d): d replaces an omitted argument only.
Default(x, d) == IF x.kind = "undefined" THEN Str(d) ELSE x

RECURSIVE Strings(_, _)
Strings(alphabet, n) ==
    IF n = 0 THEN {""}
    ELSE Strings(alphabet, n - 1)
            \cup {s \o c : s \in Strings(alphabet, n - 1), c \in alphabet}

\* The bounded inputs, with the values the post's comments use.
Ids == Strings({"1"}, MaxIdLen) \cup {"1234"}
Slugs == Strings({"s"}, MaxSlugLen) \cup {"something"}
Locales == Strings({"e", "n"}, MaxLocaleLen) \cup {"en", "de"}
OptSlugs == {Undefined} \cup {Str(s) : s \in Slugs}
OptLocales == {Undefined} \cup {Str(l) : l \in Locales}

(***************************************************************************)
(* The route examples of describing-url-routes-in-frontend-apps.md.  Every *)
(* code block of the post defines its own ROUTES; the suffix names the     *)
(* section.                                                                *)
(***************************************************************************)

\* "With dynamic parameters", first block.
ROUTES_dynamic ==
    [users |-> [index |-> "/users",
                byId  |-> [id \in Ids |-> "/users/" \o id]]]

\* "With dynamic parameters", second block: the parameter is an object.
ROUTES_object ==
    [users |-> [index |-> "/users",
                byId  |-> [p \in [id : Ids] |-> "/users/" \o p.id]]]

\* "With multiple dynamic parameters".
ROUTES_multiple_noSeparator ==
    [users |-> [index |-> "/users",
                byId  |-> [id \in Ids |->
                    [bySlug |-> [slug \in Slugs |->
                        "/users/" \o id \o slug]]]]]

ROUTES_multiple ==
    [users |-> [index |-> "/users",
                byId  |-> [id \in Ids |->
                    [bySlug |-> [slug \in Slugs |->
                        "/users/" \o id \o "/" \o slug]]]]]

\* "With optional dynamic parameters".
joinIfPresent(base, str) ==
    IF Truthy(str) THEN base \o Template(str) ELSE base

ROUTES_optional ==
    [users |-> [index |-> "/users",
                byId  |-> [p \in [id : Ids, slug : OptSlugs] |->
                    "/users/" \o p.id \o joinIfPresent("/", p.slug)]]]

\* "With global dynamic parameters".
getRoutes_noDefault(locale) ==
    LET loc == Template(locale)
        l   == IF loc = "en" THEN "" ELSE "/" \o loc
    IN  [users |-> [index |-> l \o "/users",
                    byId  |-> [id \in Ids |-> l \o "/users/" \o id]]]

getRoutes(locale) ==
    LET loc == Template(Default(locale, "en"))
        l   == IF loc = "en" THEN "" ELSE "/" \o loc
    IN  [users |-> [index |-> l \o "/users",
                    byId  |-> [id \in Ids |-> l \o "/users/" \o id]]]

\* "With hooks inside".  useLocale() reads the application's locale.
useLocale == appLocale

useRoutes ==
    LET locale == useLocale
        l      == IF locale = "en" THEN "" ELSE "/" \o locale
    IN  getRoutes(Str(l))

\* YourComponent renders <a href={routes.users.byId("1234")} />.
YourComponent(id) ==
    LET routes == useRoutes
    IN  routes.users.byId[id]

(***************************************************************************)
(* Evaluating the examples.                                                *)
(***************************************************************************)
NoInput == [id |-> "", slug |-> Undefined, locale |-> Undefined]
NoOutput == [index |-> "", href |-> ""]

RoutesInit ==
    /\ appLocale \in Locales
    /\ example = "none"
    /\ input = NoInput
    /\ output = NoOutput

EvalById ==
    \E id \in Ids :
        /\ example' = "byId"
        /\ input' = [NoInput EXCEPT !.id = id]
        /\ output' = [index |-> ROUTES_dynamic.users.index,
                      href  |-> ROUTES_dynamic.users.byId[id]]
        /\ UNCHANGED appLocale

EvalByIdObject ==
    \E id \in Ids :
        /\ example' = "byIdObject"
        /\ input' = [NoInput EXCEPT !.id = id]
        /\ output' = [index |-> ROUTES_object.users.index,
                      href  |-> ROUTES_object.users.byId[[id |-> id]]]
        /\ UNCHANGED appLocale

EvalBySlug ==
    \E id \in Ids, slug \in Slugs :
        /\ example' = "bySlug"
        /\ input' = [NoInput EXCEPT !.id = id, !.slug = Str(slug)]
        /\ output' = [index |-> ROUTES_multiple.users.index,
                      href  |-> ROUTES_multiple.users.byId[id].bySlug[slug]]
        /\ UNCHANGED appLocale

EvalOptional ==
    \E id \in Ids, slug \in OptSlugs :
        /\ example' = "optional"
        /\ input' = [NoInput EXCEPT !.id = id, !.slug = slug]
        /\ output' = [index |-> ROUTES_optional.users.index,
                      href  |-> ROUTES_optional.users.byId[
                                    [id |-> id, slug |-> slug]]]
        /\ UNCHANGED appLocale

EvalGetRoutes ==
    \E id \in Ids, locale \in OptLocales :
        /\ example' = "getRoutes"
        /\ input' = [NoInput EXCEPT !.id = id, !.locale = locale]
        /\ output' = [index |-> getRoutes(locale).users.index,
                      href  |-> getRoutes(locale).users.byId[id]]
        /\ UNCHANGED appLocale

RenderYourComponent ==
    \E id \in Ids :
        /\ example' = "useRoutes"
        /\ input' = [NoInput EXCEPT !.id = id, !.locale = Str(useLocale)]
        /\ output' = [index |-> useRoutes.users.index,
                      href  |-> YourComponent(id)]
        /\ UNCHANGED appLocale

(***************************************************************************)
(* The post files.  A file is its path and its leading lines: the front    *)
(* matter, the blank line after it and the first line of the body.  A line *)
(* is the sequence of its tokens (their concatenation is the line's text); *)
(* a date is split into characters.                                        *)
(***************************************************************************)
Delim == <<"---">>
Blank == <<>>

File_routes ==
    [path  |-> "posts/describing-url-routes-in-frontend-apps.md",
     lines |-> << Delim,
                  <<"title", ":", " ", " ",
                    "Describing URL Routes in Frontend Apps">>,
                  <<"publish_date", ":", " ",
                    "2", "0", "2", "3", "-", "0", "6", "-", "2", "5">>,
                  Delim,
                  Blank,
                  <<"> This guide describes a better way to handle URL routes in frontend">> >>]

File_snippets ==
    [path  |-> "posts/modern-react-snippets.md",
     lines |-> << Delim,
                  <<"title", ":", " ", "Modern and Useful React Snippets">>,
                  <<"publish_date", ":", " ",
                    "2", "0", "2", "3", "-", "0", "5", "-", "2", "9">>,
                  Delim,
                  Blank,
                  <<"## TailwindCSS type-safe component">> >>]

File_part_000_undated ==
    [path  |-> "unnamed/part_000",
     lines |-> << Delim,
                  <<"title", ":", " ", "A case for remote work.">>,
                  Delim,
                  Blank,
                  <<"If you've ever needed a job you">> >>]

File_part_000 ==
    [path  |-> "unnamed/part_000",
     lines |-> << Delim,
                  <<"title", ":", " ", "A case for remote work.">>,
                  <<"publish_date", ":", " ",
                    "2", "0", "2", "9", "-", "0", "1", "-", "0", "1">>,
                  Delim,
                  Blank,
                  <<"If you've ever needed a job you">> >>]

File_part_001 ==
    [path  |-> "unnamed/part_001",
     lines |-> << Delim,
                  <<"title", ":", " ", "Modern and Useful React Snippets">>,
                  <<"publish_date", ":", " ",
                    "2", "0", "2", "3", "-", "0", "5", "-", "2", "9">>,
                  Delim,
                  Blank,
                  <<"## TailwindCSS type-safe component">> >>]

PostFiles == <<File_routes, File_snippets, File_part_000, File_part_001>>

(***************************************************************************)
(* Reading a post: { title, publish_date, body }.                          *)
(***************************************************************************)
Digits == {"0", "1", "2", "3", "4", "5", "6", "7", "8", "9"}

DigitVal(c) ==
    CASE c = "0" -> 0 [] c = "1" -> 1 [] c = "2" -> 2 [] c = "3" -> 3
      [] c = "4" -> 4 [] c = "5" -> 5 [] c = "6" -> 6 [] c = "7" -> 7
      [] c = "8" -> 8 [] c = "9" -> 9

\* YYYY-MM-DD with a month of the calendar and a day of that month.
IsIsoDate(d) ==
    /\ Len(d) = 10
    /\ d[5] = "-" /\ d[8] = "-"
    /\ \A i \in {1, 2, 3, 4, 6, 7, 9, 10} : d[i] \in Digits
    /\ LET y  == 1000 * DigitVal(d[1]) + 100 * DigitVal(d[2])
                   + 10 * DigitVal(d[3]) + DigitVal(d[4])
           m  == 10 * DigitVal(d[6]) + DigitVal(d[7])
           dd == 10 * DigitVal(d[9]) + DigitVal(d[10])
           leap == (y % 4 = 0 /\ y % 100 # 0) \/ y % 400 = 0
           days == IF m \in {4, 6, 9, 11} THEN 30
                   ELSE IF m = 2 THEN (IF leap THEN 29 ELSE 28)
                   ELSE 31
       IN  m \in 1..12 /\ dd \in 1..days

RECURSIVE TrimLeft(_)
TrimLeft(toks) ==
    IF toks # <<>> /\ Head(toks) = " " THEN TrimLeft(Tail(toks)) ELSE toks

\* The line of the closing delimiter, 0 when the block is not closed.
CloseLine(lines) ==
    LET closing == {i \in 2..Len(lines) : lines[i] = Delim}
    IN  IF Len(lines) >= 1 /\ lines[1] = Delim /\ closing # {}
        THEN CHOOSE i \in closing : \A j \in closing : i <= j
        ELSE 0

IsField(line) == Len(line) >= 2 /\ line[2] = ":"

\* The fields of the front-matter block, in order: <<key, value>> pairs.
FrontMatter(file) ==
    LET close == CloseLine(file.lines)
    IN  [i \in 1..(IF close = 0 THEN 0 ELSE close - 2) |->
            LET line == file.lines[i + 1]
            IN  IF IsField(line)
                THEN [key |-> line[1],
                      value |-> TrimLeft(SubSeq(line, 3, Len(line)))]
                ELSE [key |-> "", value |-> line]]

FieldKeys(file) == [i \in DOMAIN FrontMatter(file) |-> FrontMatter(file)[i].key]

FieldValue(file, key) ==
    LET fm == FrontMatter(file)
        at == {i \in DOMAIN fm : fm[i].key = key}
    IN  IF at = {} THEN <<>> ELSE fm[CHOOSE i \in at : TRUE].value

\* The lines after the front matter that are not blank.
Body(file) ==
    LET close == CloseLine(file.lines)
    IN  IF close = 0 THEN <<>>
        ELSE SelectSeq(SubSeq(file.lines, close + 1, Len(file.lines)),
                       LAMBDA line : line # Blank)

Post(file) ==
    [title        |-> FieldValue(file, "title"),
     publish_date |-> FieldValue(file, "publish_date"),
     body         |-> Body(file)]

(***************************************************************************)
(* What the engine is given to read, as the specification describes it: a  *)
(* post parses when its front matter is closed, every line of it is a      *)
(* field, and it has a title and a date.                                   *)
(***************************************************************************)

\* A file the author adds next to the repository's posts: none, a
\* well-formed draft, or a draft with malformed front matter.
Draft(lines) == [path |-> "posts/draft.md", lines |-> lines]

ExtraFiles ==
    { <<>>,
      << Draft(<< Delim,
                  <<"title", ":", " ", "Draft">>,
                  <<"publish_date", ":", " ",
                    "2", "0", "2", "4", "-", "0", "2", "-", "2", "9">>,
                  Delim, Blank, <<"Text.">> >>) >>,
      << Draft(<< Delim,
                  <<"title", ":", " ", "Draft">>,
                  <<"publish_date", ":", " ",
                    "2", "0", "2", "4", "-", "0", "2", "-", "2", "9">>,
                  Blank, <<"Text.">> >>) >>,
      << Draft(<< Delim,
                  <<"title", ":", " ", "Draft">>,
                  <<"publish_date", ":", " ",
                    "2", "0", "2", "3", "-", "0", "2", "-", "2", "9">>,
                  Delim, Blank, <<"Text.">> >>) >>,
      << Draft(<< Delim,
                  <<"title Draft">>,
                  Delim, Blank, <<"Text.">> >>) >> }

Parses(file) ==
    /\ CloseLine(file.lines) # 0
    /\ \A i \in DOMAIN FrontMatter(file) : FrontMatter(file)[i].key # ""
    /\ Post(file).title # <<>>
    /\ IsIsoDate(Post(file).publish_date)

(***************************************************************************)
(* The entry point main.js: one call of blog() with the configuration.     *)
(***************************************************************************)

\* ga(id) of the engine: an analytics hook keyed by the tracking ID.
ga(id) == [hook |-> "ga", trackingId |-> id]

SiteConfig_linkWithoutUrl ==
    [title       |-> "Antoni",
     author      |-> "Antoni",
     avatar      |-> "./snoop.jpg",
     avatarClass |-> "full",
     links       |-> << [title |-> "Email",
                         url   |-> "mailto:antoni@quassum.com"],
                        [title |-> "GitHub"] >>,
     lang        |-> "en",
     middlewares |-> << ga("G-C0SCBZQ6ME") >>]

SiteConfig ==
    [title       |-> "Antoni",
     author      |-> "Antoni",
     avatar      |-> "./snoop.jpg",
     avatarClass |-> "full",
     links       |-> << [title |-> "Email",
                         url   |-> "mailto:antoni@quassum.com"],
                        [title |-> "GitHub",
                         url   |-> "https://github.com/bring-shrubbery"] >>,
     lang        |-> "en",
     middlewares |-> << ga("G-C0SCBZQ6ME") >>]

\* Mutants of the module body: it calls blog() again while serving; it
\* rewrites a post's front matter; it validates the posts before calling.
Main_again ==
    /\ pc \in {"start", "serving"}
    /\ Len(blogArgs) < 2
    /\ blogArgs' = Append(blogArgs, SiteConfig)
    /\ pc' = "serving"
    /\ UNCHANGED <<files, extra, served, gaHits>>

Main_rewritesPost ==
    /\ pc = "start"
    /\ blogArgs' = Append(blogArgs, SiteConfig)
    /\ pc' = "serving"
    /\ files' = [files EXCEPT ![1].lines[2] =
                    <<"title", ":", " ",
                      "Describing URL Routes in Frontend Apps">>]
    /\ UNCHANGED <<extra, served, gaHits>>

Main_validating ==
    /\ pc = "start"
    /\ IF \A i \in DOMAIN (files \o extra) : Parses((files \o extra)[i])
       THEN blogArgs' = Append(blogArgs, SiteConfig) /\ pc' = "serving"
       ELSE blogArgs' = blogArgs /\ pc' = "rejected"
    /\ UNCHANGED <<files, extra, served, gaHits>>

\* The module body: it evaluates the literal and calls blog() with it.
Main ==
    /\ pc = "start"
    /\ blogArgs' = Append(blogArgs, SiteConfig)
    /\ pc' = "serving"
    /\ UNCHANGED <<files, extra, served, gaHits>>

(***************************************************************************)
(* The engine, as far as the specification describes it: it reads the      *)
(* configuration, discovers the post files, renders them and serves them;  *)
(* a post whose front matter is malformed fails inside the engine.         *)
(***************************************************************************)

Discovered == files \o extra

Targets == {"/", "/missing"} \cup {Discovered[i].path : i \in DOMAIN Discovered}

Render(target) ==
    LET config == blogArgs[1]
        at == {i \in DOMAIN Discovered : Discovered[i].path = target}
    IN  IF target = "/"
        THEN [target |-> target, status |-> 200, title |-> <<config.title>>]
        ELSE IF at = {}
        THEN [target |-> target, status |-> 404, title |-> <<>>]
        ELSE LET file == Discovered[CHOOSE i \in at : TRUE]
             IN  IF Parses(file)
                 THEN [target |-> target, status |-> 200,
                       title |-> Post(file).title]
                 ELSE [target |-> target, status |-> 500, title |-> <<>>]

\* One request: every middleware runs, then the page is rendered.
ServeRequest ==
    /\ pc = "serving"
    /\ Len(served) < MaxRequests
    /\ \E target \in Targets :
          served' = Append(served, Render(target))
    /\ gaHits' = gaHits
                   + Cardinality({i \in DOMAIN blogArgs[1].middlewares :
                                     blogArgs[1].middlewares[i].hook = "ga"})
    /\ UNCHANGED <<pc, blogArgs, files, extra>>

(***************************************************************************)
(* Specifications.                                                         *)
(***************************************************************************)
MainInit ==
    /\ pc = "start"
    /\ blogArgs = <<>>
    /\ files = PostFiles
    /\ extra \in ExtraFiles
    /\ served = <<>>
    /\ gaHits = 0

RoutesIdle ==
    /\ appLocale = "en"
    /\ example = "none"
    /\ input = NoInput
    /\ output = NoOutput

MainIdle ==
    /\ pc = "start"
    /\ blogArgs = <<>>
    /\ files = PostFiles
    /\ extra = <<>>
    /\ served = <<>>
    /\ gaHits = 0

\* The site: the entry point, then the engine serving requests.
Init == MainInit /\ RoutesIdle

Start == Main /\ UNCHANGED routeVars

Serve == ServeRequest /\ UNCHANGED routeVars

Next == Start \/ Serve

Spec == Init /\ [][Next]_vars

\* The route examples, evaluated on every input of the bounded sets.
InitRoutes == MainIdle /\ RoutesInit

ById == EvalById /\ UNCHANGED mainVars

ByIdObject == EvalByIdObject /\ UNCHANGED mainVars

BySlug == EvalBySlug /\ UNCHANGED mainVars

Optional == EvalOptional /\ UNCHANGED mainVars

GetRoutes == EvalGetRoutes /\ UNCHANGED mainVars

Render_YourComponent == RenderYourComponent /\ UNCHANGED mainVars

NextRoutes ==
    \/ ById
    \/ ByIdObject
    \/ BySlug
    \/ Optional
    \/ GetRoutes
    \/ Render_YourComponent

SpecRoutes == InitRoutes /\ [][NextRoutes]_vars

(***************************************************************************)
(* Properties of the site (specification Spec).                            *)
(***************************************************************************)
RecognizedOptions ==
    {"title", "author", "avatar", "avatarClass", "links", "lang", "middlewares"}

PostPaths == {PostFiles[i].path : i \in DOMAIN PostFiles}

\* C1: blog() is invoked exactly once, with the configuration of main.js,
\* and once the engine serves, no step changes the configuration it was
\* given: every field keeps its value over every sequence of requests.
C1_ConfigCreatedOnce ==
    /\ [](/\ Len(blogArgs) <= 1
          /\ pc = "serving" => Len(blogArgs) = 1 /\ blogArgs[1] = SiteConfig)
    /\ [][pc = "serving" =>
            /\ blogArgs' = blogArgs
            /\ \A f \in DOMAIN blogArgs[1] : blogArgs'[1][f] = blogArgs[1][f]]_vars

C1_Witness ==
    /\ pc = "serving"
    /\ Len(blogArgs) = 1
    /\ Len(served) = MaxRequests
    /\ gaHits = MaxRequests

\* C2: the record passed to blog() has exactly the recognized options, every
\* link has a title and a url, and middlewares is one analytics hook built
\* from one tracking ID.
C2_RecognizedOptions ==
    \A i \in DOMAIN blogArgs :
        LET config == blogArgs[i]
        IN  /\ DOMAIN config = RecognizedOptions
            /\ \A k \in DOMAIN config.links :
                  DOMAIN config.links[k] = {"title", "url"}
            /\ Len(config.middlewares) = 1
            /\ config.middlewares[1].trackingId # ""
            /\ config.middlewares[1] = ga(config.middlewares[1].trackingId)

C2_Witness ==
    /\ pc = "serving"
    /\ Len(blogArgs) = 1
    /\ Len(blogArgs[1].links) = 2
    /\ blogArgs[1].middlewares = <<ga("G-C0SCBZQ6ME")>>

\* C3: every post file of the repository starts with a front-matter block
\* of exactly two fields, a title that is a string and a publish_date that
\* is an ISO date, and the block is followed by a body.
C3_FrontMatter ==
    \A i \in DOMAIN files :
        /\ CloseLine(files[i].lines) # 0
        /\ Len(FrontMatter(files[i])) = 2
        /\ {FieldKeys(files[i])[k] : k \in DOMAIN FieldKeys(files[i])}
              = {"title", "publish_date"}
        /\ Post(files[i]).title # <<>>
        /\ IsIsoDate(Post(files[i]).publish_date)
        /\ Post(files[i]).body # <<>>

C3_Witness ==
    /\ Len(files) = 4
    /\ \E i \in DOMAIN served :
          /\ served[i].target = "unnamed/part_000"
          /\ served[i].status = 200
          /\ served[i].title = <<"A case for remote work.">>

\* C4: a post is only read: no step changes a post file, so after every
\* sequence of steps each post has the title, publish_date and body it was
\* created with.
C4_PostsImmutable ==
    /\ [](\A i \in DOMAIN PostFiles : Post(files[i]) = Post(PostFiles[i]))
    /\ [][files' = files /\ extra' = extra]_vars

C4_Witness ==
    /\ Len(served) = MaxRequests
    /\ \A i \in DOMAIN served :
          served[i].target \in PostPaths /\ served[i].status = 200

\* C5: the repository handles no error: the entry point has no state besides
\* "before the call" and "after the call", and when a post fails inside the
\* engine, blog() was still called exactly once and the post fails again on
\* every request for it (nothing validates, retries or repairs).
C5_NoErrorHandling ==
    /\ pc \in {"start", "serving"}
    /\ \A i \in DOMAIN served :
          served[i].status = 500 =>
            /\ Len(blogArgs) = 1
            /\ \A j \in DOMAIN served :
                  served[j].target = served[i].target => served[j].status = 500

C5_Witness ==
    /\ Len(served) >= 2
    /\ served[1].status = 500
    /\ served[2].status = 500
    /\ served[1].target = served[2].target

(***************************************************************************)
(* Properties of the route examples (specification SpecRoutes).            *)
(***************************************************************************)

\* C6: with useLocale() a locale L other than "en", useRoutes().users.byId(id)
\* is "/" + L + "/users/" + id; for "de" and "1234" it is /de/users/1234.
C6_HookLocalePrefix ==
    (example = "useRoutes" /\ appLocale # "en") =>
        output.href = "/" \o appLocale \o "/users/" \o input.id

\* C7: getRoutes(L).users.index and getRoutes(L).users.byId(id) carry one
\* prefix, empty when L is "en" or omitted and "/" + L otherwise.
C7_GlobalLocalePrefix ==
    example = "getRoutes" =>
        LET prefix == IF input.locale = Undefined \/ input.locale = Str("en")
                      THEN ""
                      ELSE "/" \o input.locale.v
        IN  /\ output.index = prefix \o "/users"
            /\ output.href = prefix \o "/users/" \o input.id

C7_Witness ==
    /\ example = "getRoutes"
    /\ input.locale = Str("de")
    /\ input.id = "1234"
    /\ output = [index |-> "/de/users", href |-> "/de/users/1234"]

\* C8: byId(id) is "/users/" + id, byId({id}) is the same URL, and
\* byId(id).bySlug(slug) is "/users/" + id + "/" + slug.
C8_DynamicRoutes ==
    /\ example = "byId" => output.href = "/users/" \o input.id
    /\ example = "byIdObject" =>
          output.href = ROUTES_dynamic.users.byId[input.id]
    /\ example = "bySlug" =>
          output.href = "/users/" \o input.id \o "/" \o input.slug.v

C8_Witness ==
    /\ example = "bySlug"
    /\ input.id = "1234"
    /\ input.slug = Str("something")
    /\ output.href = "/users/1234/something"

\* C9: the optional form byId({id, slug}) is "/users/" + id + "/" + slug for
\* a non-empty slug, and for an omitted or empty slug it is the URL of the
\* single-parameter route, "/users/" + id, with no trailing separator.
C9_OptionalSlug ==
    example = "optional" =>
        IF Truthy(input.slug)
        THEN output.href = "/users/" \o input.id \o "/" \o input.slug.v
        ELSE output.href = ROUTES_dynamic.users.byId[input.id]

\* C10: when useLocale() is "en", useRoutes() returns the routes of
\* getRoutes("en"): index "/users" and byId(id) "/users/" + id.
C10_HookAgreesOnDefault ==
    (example = "useRoutes" /\ appLocale = "en") =>
        /\ output.index = getRoutes(Str("en")).users.index
        /\ output.href = getRoutes(Str("en")).users.byId[input.id]
        /\ output.index = "/users"
        /\ output.href = "/users/" \o input.id

====
